---- MODULE Spec2Model ----
(***************************************************************************)
(* Session-scoped retrieval engine of the contract-review service:         *)
(* the session registry (SessionManager), the per-session vector index     *)
(* (FAISSVectorStore) and chunk store, the ingestion path (DocxParser.     *)
(* parse) and the retrieval path (RetrievalService.retrieve_data).         *)
(*                                                                         *)
(* Time is counted in minutes: settings.session_ttl_minutes is the TTL,    *)
(* ttl_seconds = session_ttl_minutes * 60 is the same duration in seconds. *)
(* Objects live on a heap: a SessionData, a FAISSVectorStore and a chunk   *)
(* dict are referred to by positive integers, 0 is None.                   *)
(***************************************************************************)
EXTENDS Integers, Sequences, FiniteSets, TLC

VARIABLES now, sessions, objs, vstores, cstores, legacy, lock, goc, ret, sweep,
          parse, retr, idled, removed, accessed, worker, chunker

vars == <<now, sessions, objs, vstores, cstores, legacy, lock, goc, ret, sweep,
          parse, retr, idled, removed, accessed, worker, chunker>>

(* ----------------------------- bounds ---------------------------------- *)
MaxTime == 3
MaxObjs == 2
MaxCallers == 2
MaxCalls == 2
MaxDoc == 2
MaxVecs == 2
MaxRewrites == 2
MaxTopK == 2
MaxHits == 4
MaxParas == 3
MaxTasks == 2

SessionIds == {"A", "B"}
Callers == 1..MaxCallers
Procs == 1..MaxCalls

(* the cleaned texts of a document's chunks *)
Texts == {"a", "b"}

(* ------------------------ program constants ---------------------------- *)
session_ttl_minutes == 2
session_cleanup_interval_minutes == 1
chunk_size == 1000
ORPHAN_MIN_WORDS == 5
embedding_dimension == 2

None == 0

(* ----------------------------- helpers --------------------------------- *)
Registered == DOMAIN sessions

(* the ids used between the sweep's selection and its return *)
Touch(id) == IF sweep.pc = "loop" THEN accessed \cup {id} ELSE accessed

RemoveKey(f, k) == [x \in (DOMAIN f) \ {k} |-> f[x]]

PutKey(f, k, v) == [x \in (DOMAIN f) \cup {k} |-> IF x = k THEN v ELSE f[x]]

(* SessionData.is_expired *)
is_expired_off(sd, t, ttl) == (t - sd.last_access) > ttl + 1

is_expired(sd, t, ttl) == (t - sd.last_access) > ttl

(* SessionData.refresh_access *)
refresh_access_stale(sd, t) == sd

refresh_access(sd, t) == [sd EXCEPT !.last_access = t]

(* threading.Lock: acquire succeeds only while nobody holds the lock *)
LockFreeBroken(l) == TRUE

LockFree(l) == l = None

(* FAISSVectorStore.__init__ : a new, empty index *)
NewVectorStore == [vectors |-> <<>>, vectors_added |-> 0]

(* the reference the freshly constructed FAISSVectorStore gets *)
NewStoreRefShared(vs) == 1

NewStoreRef(vs) == Len(vs) + 1

(* SessionData(...) as constructed by get_or_create_session *)
NewSessionData(sid, t, vref, cref) ==
    [session_id |-> sid, created_at |-> t, last_access |-> t,
     vector_store |-> vref, chunk_store |-> cref, chunk_counter |-> 0]

(* the dict's iteration order is its insertion order; a key is inserted    *)
(* when its SessionData is created, so it is the order of the references   *)
RECURSIVE InsertionOrder(_)
InsertionOrder(ids) ==
    IF ids = {} THEN <<>>
    ELSE LET first == CHOOSE a \in ids : \A b \in ids : sessions[a] <= sessions[b]
         IN  <<first>> \o InsertionOrder(ids \ {first})

(* a caller can hold the SessionData o only once the get_or_create_session *)
(* call that built it has returned it                                      *)
Returned(o) ==
    /\ o \in 1..Len(objs)
    /\ \A c \in Callers :
          (goc[c].pc = "return" /\ ~goc[c].found /\ goc[c].id \in Registered)
             => sessions[goc[c].id] # o

(* ------------------------------- Init ---------------------------------- *)
IdleCaller == [pc |-> "idle", id |-> "", found |-> FALSE, ret |-> None]

IdleSweep == [pc |-> "idle", expired_sessions |-> <<>>, i |-> 1,
              cleaned_count |-> 0, selected |-> {}]

IdleParse == [pc |-> "idle", variant |-> "", sd |-> None, texts |-> <<>>,
              i |-> 1, success |-> FALSE]

IdleRetr == [pc |-> "idle", sd |-> None, query |-> "", top_k |-> 0,
             dynamic_k |-> FALSE, threshold |-> <<>>, queries |-> <<>>,
             qi |-> 1, all_hits |-> <<>>, ok |-> FALSE, chunks |-> <<>>,
             error |-> "", results |-> <<>>]

NoRet == [op |-> "none", id |-> "", val |-> None]

(* SessionManager.__init__: no cleanup task, a fresh asyncio.Event; stop is *)
(* the position of a stop_cleanup_worker call, stopped how the last one    *)
(* ended, signalled whether it set the event and no start came since       *)
IdleWorker == [tasks |-> <<>>, cleanup_task |-> None, shutdown_event |-> FALSE,
               stop |-> "idle", stopped |-> "none", signalled |-> FALSE]

(* the chunker of DocxParser before a call *)
IdleChunker == [pc |-> "idle", paragraphs |-> <<>>, similarities |-> <<>>,
                chunks |-> <<>>, merged |-> <<>>]

Init ==
    /\ now = 0
    /\ sessions = <<>>
    /\ objs = <<>>
    /\ vstores = <<>>
    /\ cstores = <<>>
    /\ lock = None
    /\ goc = [c \in Callers |-> IdleCaller]
    /\ ret = NoRet
    /\ sweep = IdleSweep
    /\ idled = {}
    /\ removed = {}
    /\ accessed = {}
    /\ legacy = [chunk_store |-> <<>>, chunk_counter |-> 0]
    /\ parse = [p \in Procs |-> IdleParse]
    /\ retr = IdleRetr
    /\ worker = IdleWorker
    /\ chunker = IdleChunker

(* ------------------------------- time ---------------------------------- *)
(* the wall clock advances; idled remembers every registered session       *)
(* object whose idle time has exceeded the TTL at some moment              *)
Tick ==
    /\ now < MaxTime
    /\ now' = now + 1
    /\ idled' = idled \cup
          {sessions[k] : k \in {x \in Registered :
               (now + 1) - objs[sessions[x]].last_access > session_ttl_minutes}}
    /\ UNCHANGED <<sessions, objs, vstores, cstores, lock, goc, ret, sweep,
                   removed, accessed, legacy, parse, retr,
                   worker, chunker>>

(* --------------------- SessionManager.get_or_create_session ------------ *)
(* with self._lock: / if session_id not in self._sessions *)
GocEnter(c, id) ==
    /\ goc[c].pc = "idle"
    /\ LockFree(lock)
    /\ lock' = c
    /\ goc' = [goc EXCEPT ![c] = [pc |-> "locked", id |-> id,
                                  found |-> id \in Registered, ret |-> None]]
    /\ accessed' = Touch(id)
    /\ UNCHANGED <<now, sessions, objs, vstores, cstores, ret, sweep, idled, removed, legacy, parse, retr,
                   worker, chunker>>

(* the branch that builds the SessionData and stores it *)
GocCreate(c) ==
    /\ goc[c].pc = "locked"
    /\ ~goc[c].found
    /\ Len(objs) < MaxObjs
    /\ LET vref == NewStoreRef(vstores)
           cref == Len(cstores) + 1
           o    == Len(objs) + 1
       IN  /\ vstores' = IF vref > Len(vstores)
                         THEN Append(vstores, NewVectorStore) ELSE vstores
           /\ cstores' = Append(cstores, <<>>)
           /\ objs' = Append(objs, NewSessionData(goc[c].id, now, vref, cref))
           /\ sessions' = PutKey(sessions, goc[c].id, o)
    /\ goc' = [goc EXCEPT ![c].pc = "return"]
    /\ UNCHANGED <<now, lock, ret, sweep, idled, removed, accessed, legacy, parse, retr,
                   worker, chunker>>

(* the else branch: refresh the access time of the existing session *)
GocRefresh(c) ==
    /\ goc[c].pc = "locked"
    /\ goc[c].found
    /\ goc[c].id \in Registered
    /\ objs' = [objs EXCEPT ![sessions[goc[c].id]] = refresh_access(@, now)]
    /\ goc' = [goc EXCEPT ![c].pc = "return"]
    /\ UNCHANGED <<now, sessions, vstores, cstores, lock, ret, sweep, idled,
                   removed, accessed, legacy, parse, retr,
                   worker, chunker>>

(* return self._sessions[session_id], leaving the with block *)
GocReturn(c) ==
    /\ goc[c].pc = "return"
    /\ goc[c].id \in Registered
    /\ goc' = [goc EXCEPT ![c].pc = "done", ![c].ret = sessions[goc[c].id]]
    /\ lock' = None
    /\ UNCHANGED <<now, sessions, objs, vstores, cstores, ret, sweep, idled,
                   removed, accessed, legacy, parse, retr,
                   worker, chunker>>

(* the caller drops the returned reference *)
GocForget(c) ==
    /\ goc[c].pc = "done"
    /\ goc' = [goc EXCEPT ![c] = IdleCaller]
    /\ UNCHANGED <<now, sessions, objs, vstores, cstores, lock, ret, sweep,
                   idled, removed, accessed, legacy, parse, retr,
                   worker, chunker>>

(* --------------------- SessionManager.get_session ---------------------- *)
GetSession(id) ==
    /\ LockFree(lock)
    /\ sessions' = sessions
    /\ IF id \in Registered
       THEN /\ objs' = [objs EXCEPT ![sessions[id]] = refresh_access(@, now)]
            /\ ret' = [op |-> "get_session", id |-> id, val |-> sessions[id]]
       ELSE /\ objs' = objs
            /\ ret' = [op |-> "get_session", id |-> id, val |-> None]
    /\ accessed' = Touch(id)
    /\ UNCHANGED <<now, vstores, cstores, lock, goc, sweep, idled, removed, legacy, parse, retr,
                   worker, chunker>>

(* --------------------- SessionManager.refresh_session ------------------ *)
RefreshSession(id) ==
    /\ LockFree(lock)
    /\ objs' = IF id \in Registered
               THEN [objs EXCEPT ![sessions[id]] = refresh_access(@, now)]
               ELSE objs
    /\ ret' = [op |-> "refresh_session", id |-> id, val |-> None]
    /\ accessed' = Touch(id)
    /\ UNCHANGED <<now, sessions, vstores, cstores, lock, goc, sweep, idled, removed, legacy, parse, retr,
                   worker, chunker>>

(* --------------------- SessionManager.delete_session ------------------- *)
delete_session_ret_always(ss, id) == TRUE

delete_session_ret(ss, id) == id \in DOMAIN ss

DeleteSession(id) ==
    /\ LockFree(lock)
    /\ sessions' = IF id \in Registered THEN RemoveKey(sessions, id) ELSE sessions
    /\ removed' = IF id \in Registered THEN removed \cup {sessions[id]} ELSE removed
    /\ ret' = [op |-> "delete_session", id |-> id,
               val |-> delete_session_ret(sessions, id)]
    /\ UNCHANGED <<now, objs, vstores, cstores, lock, goc, sweep, idled, accessed, legacy, parse, retr,
                   worker, chunker>>

(* the sum of a sequence of numbers *)
RECURSIVE SumSeq(_)
SumSeq(q) == IF q = <<>> THEN 0 ELSE Head(q) + SumSeq(Tail(q))

(* --------- SessionManager.get_session_info, list_sessions, ------------- *)
(* --------- get_total_stats ---------------------------------------------- *)
(* the SessionData after an observability call has read it: the calls read *)
(* last_access, created_at, chunk_store and the stats, none of them calls  *)
(* refresh_access                                                          *)
read_session_refreshing(sd, t) == refresh_access(sd, t)

read_session(sd, t) == sd

(* the dict get_session_info returns for one session *)
session_info(sd, t) ==
    [session_id |-> sd.session_id, created_at |-> sd.created_at,
     last_access |-> sd.last_access, idle_seconds |-> t - sd.last_access,
     chunks_indexed |-> Cardinality(DOMAIN cstores[sd.chunk_store]),
     vectors_added |-> vstores[sd.vector_store].vectors_added,
     is_expired |-> is_expired(sd, t, session_ttl_minutes)]

(* the objects after every registered session has been read *)
read_sessions(os, t) ==
    [o \in DOMAIN os |->
        IF \E k \in Registered : sessions[k] = o
        THEN read_session(os[o], t) ELSE os[o]]

GetSessionInfo(id) ==
    /\ LockFree(lock)
    /\ IF id \in Registered
       THEN /\ ret' = [op |-> "get_session_info", id |-> id,
                       val |-> <<session_info(objs[sessions[id]], now)>>]
            /\ objs' = [objs EXCEPT ![sessions[id]] = read_session(@, now)]
       ELSE /\ ret' = [op |-> "get_session_info", id |-> id, val |-> <<>>]
            /\ objs' = objs
    /\ UNCHANGED <<now, sessions, vstores, cstores, legacy, lock, goc, sweep,
                   parse, retr, idled, removed, accessed, worker, chunker>>

ListSessions ==
    /\ LockFree(lock)
    /\ LET order == InsertionOrder(Registered)
       IN  ret' = [op |-> "list_sessions", id |-> "",
                   val |-> [i \in 1..Len(order) |->
                      LET sd == objs[sessions[order[i]]]
                      IN  [session_id |-> order[i],
                           idle_seconds |-> now - sd.last_access,
                           chunks_indexed |-> Cardinality(DOMAIN cstores[sd.chunk_store]),
                           is_expired |-> is_expired(sd, now, session_ttl_minutes)]]]
    /\ objs' = read_sessions(objs, now)
    /\ UNCHANGED <<now, sessions, vstores, cstores, legacy, lock, goc, sweep,
                   parse, retr, idled, removed, accessed, worker, chunker>>

GetTotalStats ==
    /\ LockFree(lock)
    /\ LET order == InsertionOrder(Registered)
       IN  ret' = [op |-> "get_total_stats", id |-> "",
                   val |-> [total_sessions |-> Cardinality(Registered),
                            total_chunks_indexed |->
                               SumSeq([i \in 1..Len(order) |->
                                  Cardinality(DOMAIN cstores[objs[sessions[order[i]]].chunk_store])]),
                            total_vectors_added |->
                               SumSeq([i \in 1..Len(order) |->
                                  vstores[objs[sessions[order[i]]].vector_store].vectors_added]),
                            ttl_minutes |-> session_ttl_minutes]]
    /\ objs' = read_sessions(objs, now)
    /\ UNCHANGED <<now, sessions, vstores, cstores, legacy, lock, goc, sweep,
                   parse, retr, idled, removed, accessed, worker, chunker>>

(* --------------------- SessionManager.cleanup_expired_sessions --------- *)
(* first with block: collect the ids of the expired sessions *)
expired_selection ==
    LET exp == {k \in Registered :
                   is_expired(objs[sessions[k]], now, session_ttl_minutes)}
    IN  [pc |-> "loop", expired_sessions |-> InsertionOrder(exp),
         i |-> 1, cleaned_count |-> 0,
         selected |-> {k \in Registered :
            now - objs[sessions[k]].last_access > session_ttl_minutes}]

SweepSelect ==
    /\ sweep.pc = "idle"
    /\ LockFree(lock)
    /\ sweep' = expired_selection
    /\ accessed' = {}
    /\ UNCHANGED <<now, sessions, objs, vstores, cstores, lock, goc, ret, idled, removed, legacy, parse, retr,
                   worker, chunker>>

(* the loop variables after one iteration: "if not session: continue"      *)
(* leaves cleaned_count, a deletion adds one to it                         *)
sweep_iteration_counting(sw, present) ==
    [sw EXCEPT !.i = @ + 1, !.cleaned_count = @ + 1]

sweep_iteration(sw, present) ==
    [sw EXCEPT !.i = @ + 1, !.cleaned_count = IF present THEN @ + 1 ELSE @]

(* one iteration of the loop: its own with block *)
SweepDelete ==
    /\ sweep.pc = "loop"
    /\ sweep.i <= Len(sweep.expired_sessions)
    /\ LockFree(lock)
    /\ LET id == sweep.expired_sessions[sweep.i]
       IN  IF id \in Registered
           THEN /\ sessions' = RemoveKey(sessions, id)
                /\ removed' = removed \cup {sessions[id]}
                /\ sweep' = sweep_iteration(sweep, TRUE)
           ELSE /\ sweep' = sweep_iteration(sweep, FALSE)
                /\ UNCHANGED <<sessions, removed>>
    /\ UNCHANGED <<now, objs, vstores, cstores, lock, goc, ret, idled, accessed, legacy, parse, retr,
                   worker, chunker>>

(* return cleaned_count *)
SweepReturn ==
    /\ sweep.pc = "loop"
    /\ sweep.i > Len(sweep.expired_sessions)
    /\ sweep' = IdleSweep
    /\ ret' = [op |-> "cleanup_expired_sessions", id |-> "",
               val |-> sweep.cleaned_count]
    /\ accessed' = {}
    /\ UNCHANGED <<now, sessions, objs, vstores, cstores, lock, goc, idled,
                   removed, legacy, parse, retr,
                   worker, chunker>>

(* ------------- SessionManager: the background cleanup worker ----------- *)
(* worker.tasks holds every task asyncio.create_task made, cleanup_task    *)
(* the position of the one in self._cleanup_task.  A task is "created"     *)
(* until the event loop first runs it, "waiting" in                        *)
(* wait_for(shutdown_event.wait(), timeout=interval) since the minute      *)
(* since, "sweeping" inside cleanup_expired_sessions, then "done" or       *)
(* "cancelled".  The coroutines share one event loop: between two awaits   *)
(* a coroutine is not interrupted by another one, and                      *)
(* cleanup_expired_sessions has no await, so start and stop run only while *)
(* no task is sweeping; threads still interleave with the sweep's with     *)
(* blocks.  stop_cleanup_worker waits five seconds, less than a minute and *)
(* less than the interval: the clock does not advance while it waits.      *)
NewTask == [pc |-> "created", since |-> 0]

Running(task) == task.pc \in {"created", "waiting", "sweeping"}

NoTaskSweeping == \A t \in 1..Len(worker.tasks) : worker.tasks[t].pc # "sweeping"

(* if self._cleanup_task is None or self._cleanup_task.done() *)
may_create_task_always(w) == TRUE

may_create_task(w) ==
    w.cleanup_task = None \/ ~Running(w.tasks[w.cleanup_task])

StartCleanupWorkerSync ==
    /\ NoTaskSweeping
    /\ worker.stop = "idle"
    /\ may_create_task(worker) => Len(worker.tasks) < MaxTasks
    /\ worker' = IF may_create_task(worker)
                 THEN [worker EXCEPT !.tasks = Append(@, NewTask),
                                     !.cleanup_task = Len(worker.tasks) + 1,
                                     !.signalled = FALSE]
                 ELSE worker
    /\ ret' = [op |-> "start_cleanup_worker_sync", id |-> "",
               val |-> may_create_task(worker)]
    /\ UNCHANGED <<now, sessions, objs, vstores, cstores, legacy, lock, goc,
                   sweep, parse, retr, idled, removed, accessed, chunker>>

(* start_cleanup_worker up to its first await: self._shutdown_event.clear() *)
(* and the first test of the while condition                               *)
WorkerBegin(t) ==
    /\ t \in 1..Len(worker.tasks)
    /\ worker.tasks[t].pc = "created"
    /\ NoTaskSweeping
    /\ worker' = [worker EXCEPT !.shutdown_event = FALSE,
                                !.tasks[t] = [pc |-> "waiting", since |-> now]]
    /\ UNCHANGED <<now, sessions, objs, vstores, cstores, legacy, lock, goc, ret,
                   sweep, parse, retr, idled, removed, accessed, chunker>>

(* the wait returned because the event is set: break, the task is done *)
WorkerWake(t) ==
    /\ t \in 1..Len(worker.tasks)
    /\ worker.tasks[t].pc = "waiting"
    /\ worker.shutdown_event
    /\ NoTaskSweeping
    /\ worker' = [worker EXCEPT !.tasks[t].pc = "done"]
    /\ UNCHANGED <<now, sessions, objs, vstores, cstores, legacy, lock, goc, ret,
                   sweep, parse, retr, idled, removed, accessed, chunker>>

(* asyncio.TimeoutError after the interval: cleanup_expired_sessions       *)
(* starts with its first with block                                        *)
WorkerTimeout(t) ==
    /\ t \in 1..Len(worker.tasks)
    /\ worker.tasks[t].pc = "waiting"
    /\ ~worker.shutdown_event
    /\ now - worker.tasks[t].since >= session_cleanup_interval_minutes
    /\ NoTaskSweeping
    /\ sweep.pc = "idle"
    /\ LockFree(lock)
    /\ sweep' = expired_selection
    /\ worker' = [worker EXCEPT !.tasks[t].pc = "sweeping"]
    /\ accessed' = {}
    /\ UNCHANGED <<now, sessions, objs, vstores, cstores, legacy, lock, goc, ret,
                   parse, retr, idled, removed, chunker>>

(* the sweep returned: the while condition is tested again *)
WorkerLoop(t) ==
    /\ t \in 1..Len(worker.tasks)
    /\ worker.tasks[t].pc = "sweeping"
    /\ sweep.pc = "idle"
    /\ worker' = [worker EXCEPT !.tasks[t] =
                     IF worker.shutdown_event THEN [pc |-> "done", since |-> @.since]
                     ELSE [pc |-> "waiting", since |-> now]]
    /\ UNCHANGED <<now, sessions, objs, vstores, cstores, legacy, lock, goc, ret,
                   sweep, parse, retr, idled, removed, accessed, chunker>>

(* the clock while no stop_cleanup_worker call is waiting *)
WorkerTick == worker.stop = "idle" /\ Tick

(* stop_cleanup_worker up to its await: self._shutdown_event.set(); with   *)
(* no task it returns at once                                              *)
StopBegin ==
    /\ worker.stop = "idle"
    /\ NoTaskSweeping
    /\ worker' = [worker EXCEPT
          !.shutdown_event = TRUE, !.signalled = TRUE,
          !.stop = IF worker.cleanup_task = None THEN "idle" ELSE "waiting",
          !.stopped = IF worker.cleanup_task = None THEN "returned" ELSE "none"]
    /\ UNCHANGED <<now, sessions, objs, vstores, cstores, legacy, lock, goc, ret,
                   sweep, parse, retr, idled, removed, accessed, chunker>>

(* await asyncio.wait_for(self._cleanup_task, timeout=5) ends with the     *)
(* task: a task that is done lets stop return, a cancelled one makes the   *)
(* await raise CancelledError, which the except clause does not catch      *)
StopJoin ==
    /\ worker.stop = "waiting"
    /\ worker.tasks[worker.cleanup_task].pc \in {"done", "cancelled"}
    /\ worker' = [worker EXCEPT
          !.stop = "idle",
          !.stopped = IF worker.tasks[worker.cleanup_task].pc = "done"
                      THEN "returned" ELSE "raised"]
    /\ UNCHANGED <<now, sessions, objs, vstores, cstores, legacy, lock, goc, ret,
                   sweep, parse, retr, idled, removed, accessed, chunker>>

(* the five seconds pass while the task waits for an event that is not     *)
(* set: wait_for cancels the task, stop logs the warning and returns       *)
StopTimeout ==
    /\ worker.stop = "waiting"
    /\ worker.tasks[worker.cleanup_task].pc = "waiting"
    /\ ~worker.shutdown_event
    /\ worker' = [worker EXCEPT !.stop = "idle", !.stopped = "returned",
                                !.tasks[worker.cleanup_task].pc = "cancelled"]
    /\ UNCHANGED <<now, sessions, objs, vstores, cstores, legacy, lock, goc, ret,
                   sweep, parse, retr, idled, removed, accessed, chunker>>

(* ------------------------ FAISSVectorStore ----------------------------- *)
(* the inner product of two vectors of one dimension *)
Dot(a, b) == SumSeq([i \in 1..Len(a) |-> a[i] * b[i]])

ISqrt(n) == CHOOSE r \in 0..n : r * r <= n /\ (r + 1) * (r + 1) > n

(* faiss.normalize_L2: a unit vector is held in fifths, so <<6, 8>> and    *)
(* <<3, 4>> both become <<3, 4>>; the zero vector is left as it is         *)
normalize_L2(v) ==
    LET n == ISqrt(Dot(v, v))
    IN  IF n = 0 THEN v ELSE [i \in 1..Len(v) |-> (v[i] * 5) \div n]

(* a vector of the configured dimension with the leading components v *)
Pad(v) == [i \in 1..embedding_dimension |-> IF i <= Len(v) THEN v[i] ELSE 0]

(* the embedding provider's answer for a text: generate_embeddings *)
Embed(text) ==
    CASE text = "a" -> Pad(<<6, 8>>)
      [] text = "b" -> Pad(<<10, 0>>)
      [] OTHER      -> Pad(<<0, 5>>)

(* FAISSVectorStore._validate_vectors and the guard of index_embedding:    *)
(* an empty list or a vector of another dimension raises ValueError        *)
index_embedding_ok_any(embedding, dim) == TRUE

index_embedding_ok(embedding, dim) == Len(embedding) > 0 /\ Len(embedding) = dim

(* FAISSVectorStore.index_embedding, when it does not raise *)
index_embedding(vs, embedding) ==
    [vectors |-> Append(vs.vectors, normalize_L2(embedding)),
     vectors_added |-> vs.vectors_added + 1]

(* ------------------------ chunk stores --------------------------------- *)
(* manager.index_chunks_in_session: the session's dict and its counter;    *)
(* the result is the pair <<chunk_store, chunk_counter>>                   *)
RECURSIVE index_chunks_in_session(_, _, _)
index_chunks_in_session(store, counter, chunks) ==
    IF chunks = <<>> THEN <<store, counter>>
    ELSE index_chunks_in_session(PutKey(store, counter, Head(chunks)),
                                 counter + 1, Tail(chunks))

(* manager.index_chunks without a session id: the module-level store *)
index_chunks(lg, chunks) ==
    LET r == index_chunks_in_session(lg.chunk_store, lg.chunk_counter, chunks)
    IN  [chunk_store |-> r[1], chunk_counter |-> r[2]]

(* the Chunk built by parse for a cleaned text *)
NewChunk(text) == [content |-> text]

(* ------------------------ DocxParser.parse ----------------------------- *)
(* The call is made with a SessionData.  variant "semantic" is             *)
(* semantic_parser.DocxParser, "doc" is doc_parser.DocxParser.  The texts  *)
(* are the cleaned, non-empty chunk and table texts in order; the local    *)
(* list chunks holds the Chunk of each text handled so far, texts[1..i-1]. *)
(* The call yields at every await of generate_embeddings; what follows an  *)
(* await up to the next one runs without interruption.                     *)
Variants == {"semantic", "doc"}

(* semantic_parser passes three arguments to the two-parameter             *)
(* index_chunks_in_session, which raises TypeError; doc_parser calls       *)
(* index_chunks(chunks), which writes the module-level store               *)
ParseStoreRaises(variant) == variant = "semantic"

(* the end of parse once every text is embedded: store chunks and return   *)
ParseFinish(p, o, variant, texts) ==
    /\ legacy' = IF ParseStoreRaises(variant) THEN legacy
                 ELSE index_chunks(legacy, [j \in 1..Len(texts) |-> NewChunk(texts[j])])
    /\ parse' = [parse EXCEPT ![p] = [IdleParse EXCEPT !.pc = "done", !.sd = o,
                     !.variant = variant, !.success = ~ParseStoreRaises(variant)]]

ParseStart(p, o, doc, variant) ==
    /\ parse[p].pc = "idle"
    /\ Returned(o)
    /\ IF doc = <<>>
       THEN ParseFinish(p, o, variant, doc)
       ELSE /\ legacy' = legacy
            /\ parse' = [parse EXCEPT ![p] =
                 [pc |-> "embed", variant |-> variant, sd |-> o, texts |-> doc,
                  i |-> 1, success |-> FALSE]]
    /\ UNCHANGED <<now, sessions, objs, vstores, cstores, lock, goc, ret, sweep,
                   retr, idled, removed, accessed,
                   worker, chunker>>

(* the embedding of texts[i] arrives (ok) or the provider raises (~ok) *)
ParseEmbed(p, ok) ==
    /\ parse[p].pc = "embed"
    /\ LET pr   == parse[p]
           vref == objs[pr.sd].vector_store
           emb  == Embed(pr.texts[pr.i])
       IN  IF ~ok \/ ~index_embedding_ok(emb, embedding_dimension)
           THEN /\ parse' = [parse EXCEPT ![p] = [IdleParse EXCEPT !.pc = "done",
                                 !.sd = pr.sd, !.variant = pr.variant]]
                /\ UNCHANGED <<vstores, legacy>>
           ELSE /\ Len(vstores[vref].vectors) < MaxVecs
                /\ vstores' = [vstores EXCEPT ![vref] = index_embedding(@, emb)]
                /\ IF pr.i = Len(pr.texts)
                   THEN ParseFinish(p, pr.sd, pr.variant, pr.texts)
                   ELSE /\ parse' = [parse EXCEPT ![p].i = @ + 1]
                        /\ legacy' = legacy
    /\ UNCHANGED <<now, sessions, objs, cstores, lock, goc, ret, sweep,
                   retr, idled, removed, accessed,
                   worker, chunker>>

(* the caller has taken the ParseResult *)
ParseReturn(p) ==
    /\ parse[p].pc = "done"
    /\ parse' = [parse EXCEPT ![p] = IdleParse]
    /\ UNCHANGED <<now, sessions, objs, vstores, cstores, legacy, lock, goc, ret,
                   sweep, retr, idled, removed, accessed,
                   worker, chunker>>

(* ------------------ direct calls of the store helpers ------------------ *)
(* manager.index_chunks_in_session(session_data, chunks) *)
IndexChunksInSession(o, texts) ==
    /\ Returned(o)
    /\ objs[o].chunk_counter + Len(texts) <= MaxVecs
    /\ LET cref == objs[o].chunk_store
           chunks == [i \in 1..Len(texts) |-> NewChunk(texts[i])]
           r == index_chunks_in_session(cstores[cref], objs[o].chunk_counter, chunks)
       IN  /\ cstores' = [cstores EXCEPT ![cref] = r[1]]
           /\ objs' = [objs EXCEPT ![o].chunk_counter = r[2]]
    /\ UNCHANGED <<now, sessions, vstores, legacy, lock, goc, ret, sweep,
                   parse, retr, idled, removed, accessed,
                   worker, chunker>>

(* session_data.vector_store.index_embedding(embedding) *)
IndexEmbedding(o, text) ==
    /\ Returned(o)
    /\ LET vref == objs[o].vector_store
       IN  /\ Len(vstores[vref].vectors) < MaxVecs
           /\ index_embedding_ok(Embed(text), embedding_dimension)
           /\ vstores' = [vstores EXCEPT ![vref] = index_embedding(@, Embed(text))]
    /\ UNCHANGED <<now, sessions, objs, cstores, legacy, lock, goc, ret, sweep,
                   parse, retr, idled, removed, accessed,
                   worker, chunker>>

(* vector_store.index_embedding(embedding) with any list of floats: it     *)
(* raises ValueError (val FALSE) or appends the vector (val TRUE)          *)
EmbeddingInputs ==
    {<<>>, <<3>>, Pad(<<6, 8>>), Pad(<<10, 0>>), Pad(<<6, 8>>) \o <<1>>}

IndexVector(o, embedding) ==
    /\ Returned(o)
    /\ LET vref == objs[o].vector_store
       IN  IF index_embedding_ok(embedding, embedding_dimension)
           THEN /\ Len(vstores[vref].vectors) < MaxVecs
                /\ vstores' = [vstores EXCEPT ![vref] = index_embedding(@, embedding)]
                /\ ret' = [op |-> "index_embedding", id |-> objs[o].session_id,
                           val |-> TRUE]
           ELSE /\ vstores' = vstores
                /\ ret' = [op |-> "index_embedding", id |-> objs[o].session_id,
                           val |-> FALSE]
    /\ UNCHANGED <<now, sessions, objs, cstores, legacy, lock, goc, sweep,
                   parse, retr, idled, removed, accessed,
                   worker, chunker>>

(* ------------------ FAISSVectorStore.search_index ---------------------- *)
(* a similarity score in hundredths: the inner product of two unit vectors *)
(* held in fifths is in twenty-fifths                                      *)
Score(v, q) == 4 * Dot(v, q)

(* the score faiss reports next to the label -1 of a missing neighbour     *)
NoMatchScore == -(100) - 1

(* the positions 0..N-1 by descending score, the lower position first      *)
(* among equal scores                                                      *)
RECURSIVE RankPositions(_, _, _)
RankPositions(vectors, q, left) ==
    IF left = {} THEN <<>>
    ELSE LET best == CHOOSE p \in left : \A r \in left :
                        \/ Score(vectors[p + 1], q) > Score(vectors[r + 1], q)
                        \/ /\ Score(vectors[p + 1], q) = Score(vectors[r + 1], q)
                           /\ p <= r
         IN  <<best>> \o RankPositions(vectors, q, left \ {best})

(* index.search(query, top_k): top_k labels and scores, padded with -1     *)
search_index(vs, query_embedding, top_k) ==
    LET q      == normalize_L2(query_embedding)
        ranked == RankPositions(vs.vectors, q, 0..(Len(vs.vectors) - 1))
    IN  [indices |-> [j \in 1..top_k |->
                         IF j <= Len(ranked) THEN ranked[j] ELSE -1],
         scores  |-> [j \in 1..top_k |->
                         IF j <= Len(ranked)
                         THEN Score(vs.vectors[ranked[j] + 1], q)
                         ELSE NoMatchScore]]

(* the FAISSVectorStore after search_index has run on it: the method      *)
(* normalises a copy of the query and calls index.search; it adds nothing  *)
(* and counts nothing                                                      *)
searched_counting(vs) == [vs EXCEPT !.vectors_added = @ + 1]

searched(vs) == vs

(* manager.get_chunks_from_session(session_data, [idx]) *)
get_chunks_from_session_padded(store, idx) ==
    IF idx \in DOMAIN store THEN <<store[idx]>> ELSE <<NewChunk("")>>

get_chunks_from_session(store, idx) ==
    IF idx \in DOMAIN store THEN <<store[idx]>> ELSE <<>>

(* ------------------ RetrievalService.retrieve_data --------------------- *)
(* the user queries, the rewritten queries and their embeddings *)
UserQueries == {"q", " "}
Rewrites == {"r1", "r2"}
RewriteLists == UNION {[1..n -> Rewrites] : n \in 0..MaxRewrites}

IsBlankEmptyOnly(query) == query = ""

IsBlank(query) == query \in {"", " "}

(* generate_embeddings(query + " | " + query_rewriten) *)
EmbedQuery(query, rewritten) ==
    IF rewritten = "r1" THEN Pad(<<8, 6>>) ELSE Pad(<<0, 10>>)

(* initial_k = max(20, top_k * 3) if dynamic_k else top_k *)
initial_k(top_k, dynamic_k) ==
    IF dynamic_k THEN (IF top_k * 3 > 20 THEN top_k * 3 ELSE 20) ELSE top_k

(* the position of idx in the ordered dict all_hits, 0 when it is absent *)
HitAt(all_hits, idx) ==
    IF \E j \in 1..Len(all_hits) : all_hits[j].index = idx
    THEN CHOOSE j \in 1..Len(all_hits) : all_hits[j].index = idx
    ELSE 0

(* if threshold is not None and score < threshold: continue *)
BelowThresholdNever(score, threshold) == FALSE

BelowThreshold(score, threshold) == threshold # <<>> /\ score < threshold[1]

(* if idx not in all_hits or score > all_hits[idx]["similarity_score"] *)
ReplacesAlways(all_hits, at, score) == TRUE

Replaces(all_hits, at, score) ==
    at = 0 \/ score > all_hits[at].similarity_score

(* the loop over zip(indices, scores): threshold test, keep the higher     *)
(* score per index, skip an index that resolves to no chunk; all_hits is   *)
(* the dict as the j-th iteration finds it, evaluated before the iteration *)
RECURSIVE Fuse(_, _, _, _, _, _, _)
Fuse(all_hits, indices, scores, j, threshold, store, new_query) ==
    IF Len(all_hits) >= 0 /\ j > Len(indices) THEN all_hits
    ELSE LET idx   == indices[j]
             score == scores[j]
             at    == HitAt(all_hits, idx)
             chunk == get_chunks_from_session(store, idx)
             hit   == [index |-> idx, content |-> chunk[1].content,
                       similarity_score |-> score, matched_query |-> new_query]
             next  ==
                IF BelowThreshold(score, threshold) THEN all_hits
                ELSE IF Replaces(all_hits, at, score)
                     THEN IF chunk = <<>> THEN all_hits
                          ELSE IF at = 0 THEN Append(all_hits, hit)
                               ELSE [all_hits EXCEPT ![at] = hit]
                     ELSE all_hits
         IN  Fuse(next, indices, scores, j + 1, threshold, store, new_query)

(* sorted(all_hits.values(), key=similarity_score, reverse=True): stable   *)
SortHitsForgotten(hits) == hits

RECURSIVE SortHits(_)
SortHits(hits) ==
    IF hits = <<>> THEN <<>>
    ELSE LET best == CHOOSE j \in 1..Len(hits) : \A r \in 1..Len(hits) :
                        \/ hits[j].similarity_score > hits[r].similarity_score
                        \/ /\ hits[j].similarity_score = hits[r].similarity_score
                           /\ j <= r
         IN  <<hits[best]>> \o
             SortHits([r \in 1..(Len(hits) - 1) |->
                          IF r < best THEN hits[r] ELSE hits[r + 1]])

(* the loop over remaining_chunks of the dynamic top-k branch *)
RECURSIVE ExtendFixedReference(_, _, _, _, _)
ExtendFixedReference(final, remaining, j, last_score, top_k) ==
    IF j > Len(remaining) THEN final
    ELSE IF remaining[j].similarity_score * 100 >= last_score * 98
         THEN IF Len(final) + 1 >= top_k * 2
              THEN Append(final, remaining[j])
              ELSE ExtendFixedReference(Append(final, remaining[j]), remaining,
                                        j + 1, last_score, top_k)
         ELSE final

RECURSIVE Extend(_, _, _, _, _)
Extend(final, remaining, j, last_score, top_k) ==
    IF j > Len(remaining) THEN final
    ELSE LET current_score == remaining[j].similarity_score
         IN  IF current_score * 100 >= last_score * 98
             THEN IF Len(final) + 1 >= top_k * 2
                  THEN Append(final, remaining[j])
                  ELSE Extend(Append(final, remaining[j]), remaining, j + 1,
                              current_score, top_k)
             ELSE final

(* final_chunks from ranked_chunks *)
FinalChunks(ranked, top_k, dynamic_k) ==
    LET base      == SubSeq(ranked, 1, IF top_k < Len(ranked) THEN top_k ELSE Len(ranked))
        remaining == SubSeq(ranked, top_k + 1, Len(ranked))
    IN  IF dynamic_k /\ ranked # <<>>
        THEN IF base # <<>> /\ remaining # <<>>
             THEN Extend(base, remaining, 1, base[Len(base)].similarity_score, top_k)
             ELSE base
        ELSE base

(* the call raised ValueError: "Query cannot be empty." (error "empty")    *)
(* or "Unable to retrieve the data." (error "retrieve")                    *)
RetrFailed(r, error) == [IdleRetr EXCEPT !.pc = "done", !.sd = r.sd,
                                         !.error = error]

(* the call returned its result dict *)
RetrResult(r, chunks) ==
    [r EXCEPT !.pc = "done", !.ok = TRUE, !.chunks = chunks,
              !.query = "", !.queries = <<>>, !.qi = 1]

(* retrieve_data(query, top_k, dynamic_k, threshold, session_data) up to   *)
(* the await of rewrite_query; a blank query raises at once                *)
RetrBegin(o, query, top_k, dynamic_k, threshold) ==
    LET r == [IdleRetr EXCEPT !.sd = o, !.query = query, !.top_k = top_k,
                  !.dynamic_k = dynamic_k, !.threshold = threshold]
    IN  IF IsBlank(query) THEN RetrFailed(r, "empty")
        ELSE [r EXCEPT !.pc = "rewrite"]

RetrieveData(o, query, top_k, dynamic_k, threshold) ==
    /\ retr.pc = "idle"
    /\ Returned(o)
    /\ retr' = RetrBegin(o, query, top_k, dynamic_k, threshold)
    /\ UNCHANGED <<now, sessions, objs, vstores, cstores, legacy, lock, goc, ret,
                   sweep, parse, idled, removed, accessed,
                   worker, chunker>>

(* api/endpoints/retrieval/router.query_document: get_session, then        *)
(* retrieve_data with the default threshold 0.0                            *)
QueryDocument(id, query, top_k, dynamic_k) ==
    /\ LockFree(lock)
    /\ retr.pc = "idle"
    /\ IF id \in Registered
       THEN /\ objs' = [objs EXCEPT ![sessions[id]] = refresh_access(@, now)]
            /\ retr' = RetrBegin(sessions[id], query, top_k, dynamic_k, <<0>>)
            /\ ret' = ret
       ELSE /\ ret' = [op |-> "query_document", id |-> id, val |-> None]
            /\ UNCHANGED <<objs, retr>>
    /\ accessed' = Touch(id)
    /\ UNCHANGED <<now, sessions, vstores, cstores, legacy, lock, goc, sweep,
                   parse, idled, removed,
                   worker, chunker>>

(* rewrite_query returns the list qs (ok) or raises (~ok); with an empty   *)
(* list the loop body never runs and building the result reads the unbound *)
(* local new_query, which raises inside the try block                      *)
RetrRewrite(qs, ok) ==
    /\ retr.pc = "rewrite"
    /\ retr' = IF ~ok \/ qs = <<>> THEN RetrFailed(retr, "retrieve")
               ELSE [retr EXCEPT !.pc = "embed", !.queries = qs, !.qi = 1]
    /\ UNCHANGED <<now, sessions, objs, vstores, cstores, legacy, lock, goc, ret,
                   sweep, parse, idled, removed, accessed,
                   worker, chunker>>

(* the embedding of the qi-th rewritten query arrives (ok) or the provider *)
(* raises (~ok); search, fuse, and after the last query rank and return.   *)
(* results remembers what each search returned and which keys the chunk    *)
(* store held at that moment                                               *)
RetrEmbed(ok) ==
    /\ retr.pc = "embed"
    /\ LET r     == retr
           sd    == objs[r.sd]
           emb   == EmbedQuery(r.query, r.queries[r.qi])
           found == search_index(vstores[sd.vector_store], emb,
                                 initial_k(r.top_k, r.dynamic_k))
           fused == Fuse(r.all_hits, found.indices, found.scores, 1, r.threshold,
                         cstores[sd.chunk_store], <<r.query, r.queries[r.qi]>>)
           seen  == Append(r.results,
                       [new_query |-> <<r.query, r.queries[r.qi]>>,
                        indices |-> found.indices, scores |-> found.scores,
                        resolved |-> DOMAIN cstores[sd.chunk_store]])
       IN  retr' =
             IF ~ok \/ ~index_embedding_ok(emb, embedding_dimension)
             THEN RetrFailed(r, "retrieve")
             ELSE IF r.qi = Len(r.queries)
                  THEN RetrResult([r EXCEPT !.all_hits = fused, !.results = seen],
                           FinalChunks(SortHits(fused), r.top_k, r.dynamic_k))
                  ELSE [r EXCEPT !.qi = @ + 1, !.all_hits = fused,
                                 !.results = seen]
    /\ vstores' = IF ~ok THEN vstores
                  ELSE [vstores EXCEPT ![objs[retr.sd].vector_store] = searched(@)]
    /\ UNCHANGED <<now, sessions, objs, cstores, legacy, lock, goc, ret,
                   sweep, parse, idled, removed, accessed,
                   worker, chunker>>

(* the whole loop over new_queries and the ranking that follows it, for    *)
(* the reformulations taken in the order of queries                        *)
RECURSIVE FuseQueries(_, _, _, _, _, _, _)
FuseQueries(all_hits, vs, store, query, queries, k, threshold) ==
    IF queries = <<>> THEN all_hits
    ELSE LET found == search_index(vs, EmbedQuery(query, Head(queries)), k)
             fused == Fuse(all_hits, found.indices, found.scores, 1, threshold,
                           store, <<query, Head(queries)>>)
         IN  FuseQueries(fused, vs, store, query, Tail(queries), k, threshold)

retrieved_chunks(vs, store, query, queries, top_k, dynamic_k, threshold) ==
    FinalChunks(SortHits(FuseQueries(<<>>, vs, store, query, queries,
                                     initial_k(top_k, dynamic_k), threshold)),
                top_k, dynamic_k)

(* the caller has taken the result or the exception *)
RetrReturn ==
    /\ retr.pc = "done"
    /\ retr' = IdleRetr
    /\ UNCHANGED <<now, sessions, objs, vstores, cstores, legacy, lock, goc, ret,
                   sweep, parse, idled, removed, accessed,
                   worker, chunker>>

(* ------------- DocxParser._semantic_chunk_paragraphs ------------------- *)
(* A paragraph is its word count, the length of its text and its           *)
(* is_heading flag; a chunk is the sequence of the positions (from 1) of   *)
(* the paragraphs whose texts it joins with " ", so its word count is the  *)
(* sum of theirs.  A similarity is held in hundredths.                     *)
ParagraphTexts == {[words |-> 2, len |-> 12], [words |-> 5, len |-> 30],
                   [words |-> 120, len |-> 700]}
Paragraphs == {[words |-> t.words, len |-> t.len, is_heading |-> h] :
                  t \in ParagraphTexts, h \in BOOLEAN}
SimilarityValues == {50, 90}

(* len(chunk.split()) *)
WordCount(paragraphs, chunk) ==
    SumSeq([j \in 1..Len(chunk) |-> paragraphs[chunk[j]].words])

(* {i for i, sim in enumerate(similarities) if sim < mean - 0.75 * std},    *)
(* with n similarities of sum S: S - n*sim > 0 and                         *)
(* 16 * (S - n*sim)^2 > 9 * (n * sum of squares - S^2)                     *)
split_points(similarities) ==
    LET n  == Len(similarities)
        S  == SumSeq(similarities)
        SS == SumSeq([i \in 1..n |-> similarities[i] * similarities[i]])
    IN  {i \in 0..(n - 1) :
            LET d == S - n * similarities[i + 1]
            IN  d > 0 /\ 16 * d * d > 9 * (n * SS - S * S)}

(* _flush(): no-op when the buffer is empty *)
Flush(chunks, current) ==
    IF current = <<>> THEN chunks ELSE Append(chunks, current)

(* if para["is_heading"]: _flush() *)
heading_flushes_never(para) == FALSE

heading_flushes(para) == para.is_heading

(* the loop over enumerate(paragraphs), from the i-th paragraph on, and    *)
(* the flush that follows it                                               *)
RECURSIVE chunk_paragraphs(_, _, _, _, _, _)
chunk_paragraphs(paragraphs, splits, i, chunks, current, current_len) ==
    IF i > Len(paragraphs) THEN Flush(chunks, current)
    ELSE LET para == paragraphs[i]
             pre  == \/ heading_flushes(para)
                     \/ ~para.is_heading /\ current_len + para.len > chunk_size
             chunks1 == IF pre THEN Flush(chunks, current) ELSE chunks
             buffer  == Append(IF pre THEN <<>> ELSE current, i)
             length  == (IF pre /\ current # <<>> THEN 0 ELSE current_len) + para.len
             post == (i - 1) \in splits
         IN  chunk_paragraphs(paragraphs, splits, i + 1,
                              IF post THEN Flush(chunks1, buffer) ELSE chunks1,
                              IF post THEN <<>> ELSE buffer,
                              IF post THEN 0 ELSE length)

(* _merge_orphan_chunks: what is done with the fragment still carried      *)
(* after the loop                                                          *)
trailing_carry_alone(merged, carry) ==
    IF carry = <<>> THEN merged ELSE Append(merged, carry)

trailing_carry(merged, carry) ==
    IF carry = <<>> THEN merged
    ELSE IF merged # <<>>
         THEN [merged EXCEPT ![Len(merged)] = @ \o carry]
         ELSE Append(merged, carry)

(* _merge_orphan_chunks from the k-th chunk on *)
RECURSIVE merge_orphan_chunks(_, _, _, _, _, _)
merge_orphan_chunks(paragraphs, chunks, k, merged, carry, min_words) ==
    IF k > Len(chunks) THEN trailing_carry(merged, carry)
    ELSE LET chunk == carry \o chunks[k]
         IN  IF WordCount(paragraphs, chunk) < min_words
             THEN merge_orphan_chunks(paragraphs, chunks, k + 1, merged, chunk,
                                      min_words)
             ELSE merge_orphan_chunks(paragraphs, chunks, k + 1,
                                      Append(merged, chunk), <<>>, min_words)

(* _semantic_chunk_paragraphs once the embeddings have arrived: the chunks *)
(* of the loop are kept next to the list the post-pass makes of them       *)
SemanticChunkParagraphs ==
    /\ chunker.pc = "chunk"
    /\ LET chunks == chunk_paragraphs(chunker.paragraphs,
                                      split_points(chunker.similarities),
                                      1, <<>>, <<>>, 0)
       IN  chunker' = [chunker EXCEPT
              !.pc = "done", !.chunks = chunks,
              !.merged = merge_orphan_chunks(chunker.paragraphs, chunks, 1,
                                             <<>>, <<>>, ORPHAN_MIN_WORDS)]
    /\ UNCHANGED <<now, sessions, objs, vstores, cstores, legacy, lock, goc, ret,
                   sweep, parse, retr, idled, removed, accessed, worker>>

(* _merge_orphan_chunks(chunks, min_words=5) called on a chunk list *)
MergeOrphanChunks ==
    /\ chunker.pc = "merge"
    /\ chunker' = [chunker EXCEPT
          !.pc = "done",
          !.merged = merge_orphan_chunks(chunker.paragraphs, chunker.chunks, 1,
                                         <<>>, <<>>, ORPHAN_MIN_WORDS)]
    /\ UNCHANGED <<now, sessions, objs, vstores, cstores, legacy, lock, goc, ret,
                   sweep, parse, retr, idled, removed, accessed, worker>>

(* the caller has taken the chunk list *)
ChunkerReturn ==
    /\ chunker.pc = "done"
    /\ chunker' = IdleChunker
    /\ UNCHANGED <<now, sessions, objs, vstores, cstores, legacy, lock, goc, ret,
                   sweep, parse, retr, idled, removed, accessed, worker>>

(* --------------------------- specifications ---------------------------- *)
(* the registry under one caller thread, explicit deletion and the sweep *)
NextSweep ==
    \/ Tick
    \/ \E id \in SessionIds : GocEnter(1, id)
    \/ GocCreate(1)
    \/ GocRefresh(1)
    \/ GocReturn(1)
    \/ GocForget(1)
    \/ DeleteSession("A")
    \/ SweepSelect
    \/ SweepDelete
    \/ SweepReturn

SpecSweep == Init /\ [][NextSweep]_vars

(* lookups, refreshes and deletions of one session as time passes *)
NextCrud ==
    \/ Tick
    \/ GocEnter(1, "A")
    \/ GocCreate(1)
    \/ GocRefresh(1)
    \/ GocReturn(1)
    \/ GocForget(1)
    \/ \E id \in SessionIds : GetSession(id)
    \/ \E id \in SessionIds : RefreshSession(id)
    \/ \E id \in SessionIds : DeleteSession(id)

SpecCrud == Init /\ [][NextCrud]_vars

(* the admin endpoints' observability calls on sessions that are created   *)
(* once, filled and left idle                                              *)
NextObserve ==
    \/ Tick
    \/ GocEnter(1, "A")
    \/ GocEnter(2, "B")
    \/ \E c \in 1..2 : GocCreate(c)
    \/ \E c \in 1..2 : GocReturn(c)
    \/ IndexEmbedding(1, "a")
    \/ IndexChunksInSession(1, <<"a">>)
    \/ \E id \in SessionIds : GetSessionInfo(id)
    \/ ListSessions
    \/ GetTotalStats

SpecObserve == Init /\ [][NextObserve]_vars

(* concurrent get_or_create_session calls and explicit deletion *)
NextCreate ==
    \/ \E c \in Callers, id \in SessionIds : GocEnter(c, id)
    \/ \E c \in Callers : GocCreate(c)
    \/ \E c \in Callers : GocRefresh(c)
    \/ \E c \in Callers : GocReturn(c)
    \/ \E c \in Callers : GocForget(c)
    \/ \E id \in SessionIds : DeleteSession(id)

SpecCreate == Init /\ [][NextCreate]_vars

(* ingestion into one session: parse calls in flight, the first call with  *)
(* a document of "a" texts, the others with documents of "b" texts         *)
NextIngest ==
    \/ GocEnter(1, "A")
    \/ GocCreate(1)
    \/ GocReturn(1)
    \/ \E p \in Procs, n \in 0..MaxDoc, v \in Variants :
           ParseStart(p, 1, [i \in 1..n |-> IF p = 1 THEN "a" ELSE "b"], v)
    \/ \E p \in Procs, ok \in BOOLEAN : ParseEmbed(p, ok)
    \/ \E p \in Procs : ParseReturn(p)

SpecIngest == Init /\ [][NextIngest]_vars

(* two sessions, writes into either of them *)
NextIsolation ==
    \/ \E id \in SessionIds : GocEnter(1, id)
    \/ GocCreate(1)
    \/ GocRefresh(1)
    \/ GocReturn(1)
    \/ GocForget(1)
    \/ \E o \in 1..MaxObjs, t \in Texts : IndexEmbedding(o, t)
    \/ \E o \in 1..MaxObjs : IndexChunksInSession(o, <<"a">>)

SpecIsolation == Init /\ [][NextIsolation]_vars

(* retrieval from a session while the registry changes *)
NextRetrieve ==
    \/ GocEnter(1, "A")
    \/ GocCreate(1)
    \/ GocReturn(1)
    \/ \E t \in Texts : IndexEmbedding(1, t)
    \/ \E t \in Texts : IndexChunksInSession(1, <<t>>)
    \/ DeleteSession("A")
    \/ \E q \in UserQueries, k \in 1..MaxTopK, d \in BOOLEAN :
           QueryDocument("A", q, k, d)
    \/ \E qs \in RewriteLists, ok \in BOOLEAN : RetrRewrite(qs, ok)
    \/ \E ok \in BOOLEAN : RetrEmbed(ok)
    \/ RetrReturn

SpecRetrieve == Init /\ [][NextRetrieve]_vars

(* reads and writes of one session while the clock advances *)
NextAccess ==
    \/ Tick
    \/ GocEnter(1, "A")
    \/ GocCreate(1)
    \/ GocReturn(1)
    \/ IndexEmbedding(1, "a")
    \/ IndexChunksInSession(1, <<"a">>)
    \/ \E k \in 1..MaxTopK : QueryDocument("A", "q", k, FALSE)
    \/ \E ok \in BOOLEAN : RetrRewrite(<<"r1">>, ok)
    \/ \E ok \in BOOLEAN : RetrEmbed(ok)
    \/ RetrReturn

SpecAccess == Init /\ [][NextAccess]_vars

(* retrieve_data with every threshold on one session while the vectors of  *)
(* one document (chunks a, b, a, ...) and chunks are written into it; the  *)
(* providers answer                                                        *)
Thresholds == {<<>>, <<0>>, <<90>>}
Document == [i \in 1..MaxVecs |-> IF i % 2 = 1 THEN "a" ELSE "b"]

NextFuse ==
    \/ GocEnter(1, "A")
    \/ GocCreate(1)
    \/ GocReturn(1)
    \/ /\ Returned(1)
       /\ \E i \in 1..MaxVecs :
             /\ Len(vstores[objs[1].vector_store].vectors) = i - 1
             /\ IndexEmbedding(1, Document[i])
    \/ IndexChunksInSession(1, <<"a">>)
    \/ \E k \in 1..MaxTopK, d \in BOOLEAN, th \in Thresholds :
           RetrieveData(1, "q", k, d, th)
    \/ \E qs \in RewriteLists : RetrRewrite(qs, TRUE)
    \/ RetrEmbed(TRUE)
    \/ RetrReturn

SpecFuse == Init /\ [][NextFuse]_vars

(* retrieve_data with blank and non-blank queries, the default threshold   *)
(* and one reformulation per call                                          *)
NextBlank ==
    \/ GocEnter(1, "A")
    \/ GocCreate(1)
    \/ GocReturn(1)
    \/ \E t \in Texts : IndexEmbedding(1, t)
    \/ IndexChunksInSession(1, <<"a">>)
    \/ \E q \in UserQueries \cup {""}, k \in 1..MaxTopK, d \in BOOLEAN :
           RetrieveData(1, q, k, d, <<0>>)
    \/ \E r \in Rewrites : RetrRewrite(<<r>>, TRUE)
    \/ RetrEmbed(TRUE)
    \/ RetrReturn

SpecBlank == Init /\ [][NextBlank]_vars

(* inserts of well-formed and malformed vectors into the sessions' indexes *)
NextIndex ==
    \/ \E id \in SessionIds : GocEnter(1, id)
    \/ GocCreate(1)
    \/ GocRefresh(1)
    \/ GocReturn(1)
    \/ GocForget(1)
    \/ \E o \in 1..MaxObjs, e \in EmbeddingInputs : IndexVector(o, e)
    \/ \E o \in 1..MaxObjs, t \in Texts : IndexEmbedding(o, t)

SpecIndex == Init /\ [][NextIndex]_vars

(* the ranking of retrieve_data applied to a fused map: the maps hold up   *)
(* to MaxHits hits with scores in hundredths, and the scenario of the      *)
(* dynamic-k test with its top_k                                           *)
ScoreValues == {100, 98, 97, 90, 50}
ScoreLists == UNION {[1..n -> ScoreValues] : n \in 0..MaxHits}
ExampleScores == <<99, 98, 97, 96, 95, 94, 93, 80>>
ExampleTopK == 5

HitsFrom(scores) ==
    [i \in 1..Len(scores) |->
        [index |-> i - 1, content |-> "a", similarity_score |-> scores[i],
         matched_query |-> <<"q", "r1">>]]

RankInputs ==
    {[IdleRetr EXCEPT !.pc = "rank", !.top_k = k, !.dynamic_k = d,
                      !.all_hits = HitsFrom(sc)] :
        sc \in ScoreLists, k \in 1..MaxTopK, d \in BOOLEAN}
    \cup {[IdleRetr EXCEPT !.pc = "rank", !.top_k = ExampleTopK, !.dynamic_k = d,
                           !.all_hits = HitsFrom(ExampleScores)] : d \in BOOLEAN}

InitRank ==
    /\ now = 0
    /\ sessions = <<>>
    /\ objs = <<>>
    /\ vstores = <<>>
    /\ cstores = <<>>
    /\ lock = None
    /\ goc = [c \in Callers |-> IdleCaller]
    /\ ret = NoRet
    /\ sweep = IdleSweep
    /\ idled = {}
    /\ removed = {}
    /\ accessed = {}
    /\ legacy = [chunk_store |-> <<>>, chunk_counter |-> 0]
    /\ parse = [p \in Procs |-> IdleParse]
    /\ retr \in RankInputs
    /\ worker = IdleWorker
    /\ chunker = IdleChunker

(* retrieve_data from the sort of the fused map to the result dict *)
RankHits ==
    /\ retr.pc = "rank"
    /\ retr' = RetrResult(retr, FinalChunks(SortHits(retr.all_hits),
                                            retr.top_k, retr.dynamic_k))
    /\ UNCHANGED <<now, sessions, objs, vstores, cstores, legacy, lock, goc, ret,
                   sweep, parse, idled, removed, accessed,
                   worker, chunker>>

NextRank ==
    \/ RankHits
    \/ RetrReturn

SpecRank == InitRank /\ [][NextRank]_vars

(* retrieve_data on a session whose document is already indexed: the index *)
(* holds the unit vectors the embedding provider gave for the chunks, the  *)
(* chunk store a chunk for every position                                  *)
ChunkEmbeddings == {Pad(<<8, 6>>), Pad(<<0, 10>>), Pad(<<6, 8>>)}

RECURSIVE IndexedStore(_)
IndexedStore(embeddings) ==
    IF embeddings = <<>> THEN NewVectorStore
    ELSE index_embedding(IndexedStore(SubSeq(embeddings, 1, Len(embeddings) - 1)),
                         embeddings[Len(embeddings)])

InitIndexed ==
    /\ now = 0
    /\ \E n \in 0..MaxVecs : \E embeddings \in [1..n -> ChunkEmbeddings] :
          /\ vstores = <<IndexedStore(embeddings)>>
          /\ cstores = <<index_chunks_in_session(<<>>, 0,
                            [i \in 1..n |-> NewChunk("a")])[1]>>
          /\ objs = <<[NewSessionData("A", 0, 1, 1) EXCEPT !.chunk_counter = n]>>
    /\ sessions = PutKey(<<>>, "A", 1)
    /\ lock = None
    /\ goc = [c \in Callers |-> IdleCaller]
    /\ ret = NoRet
    /\ sweep = IdleSweep
    /\ idled = {}
    /\ removed = {}
    /\ accessed = {}
    /\ legacy = [chunk_store |-> <<>>, chunk_counter |-> 0]
    /\ parse = [p \in Procs |-> IdleParse]
    /\ retr = IdleRetr
    /\ worker = IdleWorker
    /\ chunker = IdleChunker

NextIndexed ==
    \/ \E k \in 1..MaxTopK, d \in BOOLEAN, th \in Thresholds :
           RetrieveData(1, "q", k, d, th)
    \/ \E qs \in RewriteLists : RetrRewrite(qs, TRUE)
    \/ RetrEmbed(TRUE)
    \/ RetrReturn

SpecIndexed == InitIndexed /\ [][NextIndexed]_vars

(* the cleanup worker started and stopped while one session is created and *)
(* left to expire                                                          *)
NextWorker ==
    \/ WorkerTick
    \/ GocEnter(1, "A")
    \/ GocCreate(1)
    \/ GocReturn(1)
    \/ StartCleanupWorkerSync
    \/ \E t \in 1..MaxTasks : WorkerBegin(t)
    \/ \E t \in 1..MaxTasks : WorkerWake(t)
    \/ \E t \in 1..MaxTasks : WorkerTimeout(t)
    \/ SweepDelete
    \/ SweepReturn
    \/ \E t \in 1..MaxTasks : WorkerLoop(t)
    \/ StopBegin
    \/ StopJoin
    \/ StopTimeout

SpecWorker == Init /\ [][NextWorker]_vars

(* the chunker on every paragraph list with the similarities of its        *)
(* neighbouring paragraphs, and the post-pass on every list of             *)
(* one-paragraph chunks                                                    *)
ChunkerInputs ==
    UNION {{[IdleChunker EXCEPT !.pc = "chunk", !.paragraphs = ps,
                                !.similarities = sims] :
               ps \in [1..n -> Paragraphs],
               sims \in [1..(IF n = 0 THEN 0 ELSE n - 1) -> SimilarityValues]} :
           n \in 0..MaxParas}

MergeInputs ==
    UNION {{[IdleChunker EXCEPT !.pc = "merge", !.paragraphs = ps,
                                !.chunks = [i \in 1..n |-> <<i>>]] :
               ps \in [1..n -> Paragraphs]} :
           n \in 0..MaxParas}

InitChunk ==
    /\ now = 0
    /\ sessions = <<>>
    /\ objs = <<>>
    /\ vstores = <<>>
    /\ cstores = <<>>
    /\ lock = None
    /\ goc = [c \in Callers |-> IdleCaller]
    /\ ret = NoRet
    /\ sweep = IdleSweep
    /\ idled = {}
    /\ removed = {}
    /\ accessed = {}
    /\ legacy = [chunk_store |-> <<>>, chunk_counter |-> 0]
    /\ parse = [p \in Procs |-> IdleParse]
    /\ retr = IdleRetr
    /\ worker = IdleWorker
    /\ chunker \in ChunkerInputs \cup MergeInputs

NextChunk ==
    \/ SemanticChunkParagraphs
    \/ MergeOrphanChunks
    \/ ChunkerReturn

SpecChunk == InitChunk /\ [][NextChunk]_vars

(* ------------------------------ properties ----------------------------- *)
(* what a search with the query vectors and a lookup of the keys return    *)
(* on an index vs and a chunk store cs                                     *)
QueryVectors == {Pad(<<8, 6>>), Pad(<<0, 10>>)}

SessionView(vs, cs) ==
    [search |-> [q \in QueryVectors |-> search_index(vs, q, MaxVecs + 1)],
     chunks |-> [i \in 0..MaxVecs |-> get_chunks_from_session(cs, i)]]

(* the parse calls in flight on the session object o *)
InFlight(o) == {p \in Procs : parse[p].pc = "embed" /\ parse[p].sd = o}

(* C1: when a parse call on a session has returned, successfully or not,   *)
(* and no other call is writing into that session, the session's chunk     *)
(* store has as many entries as its index has vectors                      *)
C1_AlignedAfterParse ==
    \A p \in Procs :
        (parse[p].pc = "done" /\ InFlight(parse[p].sd) = {}) =>
            Cardinality(DOMAIN cstores[objs[parse[p].sd].chunk_store])
              = Len(vstores[objs[parse[p].sd].vector_store].vectors)

(* C2: after two ingestion calls into one session have both returned, the  *)
(* vector at every index position i is the embedding of the chunk stored   *)
(* under key i                                                             *)
C2_PositionsAligned ==
    \A p1, p2 \in Procs :
        (p1 # p2 /\ parse[p1].pc = "done" /\ parse[p2].pc = "done"
           /\ parse[p1].sd = parse[p2].sd) =>
            LET sd      == objs[parse[p1].sd]
                vectors == vstores[sd.vector_store].vectors
                store   == cstores[sd.chunk_store]
            IN  \A i \in 0..(Len(vectors) - 1) :
                    /\ i \in DOMAIN store
                    /\ vectors[i + 1] = normalize_L2(Embed(store[i].content))

(* a step that writes into the stores of the session object a *)
WritesInto(a) ==
    \/ \E t \in Texts : IndexEmbedding(a, t)
    \/ \E t \in Texts : IndexChunksInSession(a, <<t>>)

(* C3: a write into session a leaves what every other session b returns    *)
(* for a search (positions and scores) and for a chunk lookup unchanged,    *)
(* and no two sessions share an index or a chunk store                     *)
C3_Isolation ==
    /\ [](\A a, b \in 1..Len(objs) : a # b =>
              /\ objs[a].vector_store # objs[b].vector_store
              /\ objs[a].chunk_store # objs[b].chunk_store)
    /\ [][\A a, b \in 1..Len(objs) :
          (a # b /\ WritesInto(a)) =>
             SessionView(vstores'[objs'[b].vector_store],
                         cstores'[objs'[b].chunk_store])
               = SessionView(vstores[objs[b].vector_store],
                             cstores[objs[b].chunk_store])]_vars

C3_Witness ==
    /\ Len(objs) = 2
    /\ Len(vstores[objs[1].vector_store].vectors) > 0
    /\ Len(vstores[objs[2].vector_store].vectors) > 0
    /\ DOMAIN cstores[objs[1].chunk_store] # {}
    /\ SessionView(vstores[objs[1].vector_store], cstores[objs[1].chunk_store])
         # SessionView(vstores[objs[2].vector_store], cstores[objs[2].chunk_store])

(* C4: the sweep removes no session whose idle time never exceeded the TTL *)
C4_FreshSessionSurvives ==
    [][\A id \in SessionIds :
          (SweepDelete /\ id \in Registered /\ id \notin DOMAIN sessions')
             => sessions[id] \in idled]_vars

(* C5: a session that was idle for longer than the TTL when the sweep made *)
(* its selection and was not accessed during the sweep is not registered   *)
(* when the sweep returns                                                  *)
C5_ExpiredRemoved ==
    [][SweepReturn =>
          \A id \in sweep.selected \ accessed : id \notin DOMAIN sessions']_vars

C5_Witness ==
    /\ ret.op = "cleanup_expired_sessions"
    /\ ret.val > 0
    /\ Registered # {}

(* C6: a retrieval that returns hits does not take them from the stores of *)
(* a session that has been removed from the registry                       *)
C6_NoHitsFromRemoved ==
    (retr.pc = "done" /\ retr.ok /\ retr.chunks # <<>>) => retr.sd \notin removed

(* C7: concurrent get_or_create_session calls for one id return the same   *)
(* SessionData unless a removal came between them, and every SessionData   *)
(* ever created is the registry's entry for its id or has been removed     *)
C7_OneSessionPerId ==
    /\ \A c1, c2 \in Callers :
          (goc[c1].pc = "done" /\ goc[c2].pc = "done"
             /\ goc[c1].id = goc[c2].id /\ goc[c1].ret # goc[c2].ret)
          => (goc[c1].ret \in removed \/ goc[c2].ret \in removed)
    /\ \A o \in 1..Len(objs) :
          \/ o \in removed
          \/ /\ objs[o].session_id \in Registered
             /\ sessions[objs[o].session_id] = o

C7_Witness ==
    \E c1, c2 \in Callers :
        /\ c1 # c2
        /\ goc[c1].pc = "done" /\ goc[c2].pc = "done"
        /\ goc[c1].id = goc[c2].id
        /\ ~goc[c1].found /\ goc[c2].found
        /\ goc[c1].ret # None /\ goc[c1].ret = goc[c2].ret
        /\ removed = {}

(* C8: delete_session returns True exactly when the id was registered and  *)
(* leaves the id unregistered; for an unregistered id it changes nothing,  *)
(* and for an id whose session was removed before it returns False         *)
C8_DeleteIdempotent ==
    [][\A id \in SessionIds : DeleteSession(id) =>
          /\ ret'.val = (id \in Registered)
          /\ id \notin DOMAIN sessions'
          /\ (id \notin Registered => sessions' = sessions /\ objs' = objs)
          /\ (id \notin Registered /\ \E o \in removed : objs[o].session_id = id)
                => ~ret'.val]_vars

C8_Witness ==
    /\ ret.op = "delete_session"
    /\ ~ret.val
    /\ \E o \in removed : objs[o].session_id = ret.id
    /\ ret.id \notin Registered

(* C9: get_session leaves the session map as it is; for an unknown id it   *)
(* returns None and changes no session, for a known id it returns that     *)
(* session with last_access set to the current time                        *)
C9_GetNeverCreates ==
    [][\A id \in SessionIds : GetSession(id) =>
          /\ sessions' = sessions
          /\ IF id \in Registered
             THEN /\ ret'.val = sessions[id]
                  /\ objs'[sessions[id]].last_access = now
             ELSE /\ ret'.val = None
                  /\ objs' = objs]_vars

C9_Witness ==
    /\ ret.op = "get_session"
    /\ ret.val # None
    /\ objs[ret.val].last_access > objs[ret.val].created_at
    /\ objs[ret.val].last_access = now

(* C10: a search against a session, an index_embedding into its vector     *)
(* store and an index_chunks_in_session into its chunk store each set the  *)
(* session's last_access to the current time                               *)
C10_AccessRefreshes ==
    [][\A o \in 1..Len(objs) :
          (\/ \E t \in Texts : IndexEmbedding(o, t)
           \/ \E t \in Texts : IndexChunksInSession(o, <<t>>)
           \/ \E ok \in BOOLEAN : retr.sd = o /\ RetrEmbed(ok))
          => objs'[o].last_access = now]_vars

(* the retrieval call in flight ends with an exception on this step *)
RetrRaises == retr.pc \in {"rewrite", "embed"} /\ retr'.pc = "done" /\ ~retr'.ok

(* C11: when rewrite_query raises, retrieve_data does not fail: it goes on *)
(* with the original query                                                 *)
C11_RewriteFailureTolerated ==
    [][(\E qs \in RewriteLists : RetrRewrite(qs, FALSE)) => ~RetrRaises]_vars

(* C12: when rewrite_query returns an empty list, retrieve_data does not   *)
(* raise: it searches for the original query                               *)
C12_EmptyRewriteTolerated ==
    [][RetrRewrite(<<>>, TRUE) => ~RetrRaises]_vars

(* C13: when the embedding provider fails for one reformulated query after *)
(* it has succeeded for another one, retrieve_data does not raise          *)
C13_OneEmbeddingFailureTolerated ==
    [][(RetrEmbed(FALSE) /\ retr.qi > 1) => ~RetrRaises]_vars

(* a successful retrieve_data call has returned *)
RetrReturned == retr.pc = "done" /\ retr.ok

(* the positions a search can report, the "no match" position -1 included *)
Positions == (-1)..MaxVecs

(* the score the j-th search reported for position idx *)
ScoreIn(j, idx) ==
    LET res == retr.results[j]
    IN  res.scores[CHOOSE p \in 1..Len(res.indices) : res.indices[p] = idx]

(* the j-th search reported idx with a score that is not below the threshold *)
PassedIn(j, idx) ==
    LET res == retr.results[j]
    IN  \E p \in 1..Len(res.indices) :
            /\ res.indices[p] = idx
            /\ (retr.threshold = <<>> \/ res.scores[p] >= retr.threshold[1])

(* the entries of the fused map for position idx *)
HitsOf(idx) == {h \in 1..Len(retr.all_hits) : retr.all_hits[h].index = idx}

(* the entry for idx is the single one, carries the highest score of the   *)
(* searches J and names a query of J that produced it                      *)
IsMaxOver(J, idx) ==
    /\ Cardinality(HitsOf(idx)) = 1
    /\ LET hit == retr.all_hits[CHOOSE h \in HitsOf(idx) : TRUE]
       IN  /\ \A j \in J : hit.similarity_score >= ScoreIn(j, idx)
           /\ \E j \in J : /\ hit.similarity_score = ScoreIn(j, idx)
                           /\ hit.matched_query = retr.results[j].new_query

(* C14 as stated: every position that passed the threshold in at least one *)
(* reformulation is in the fused map exactly once, with the highest score  *)
(* it received and a query that produced it                                *)
C14_EveryPassedPositionFused ==
    RetrReturned =>
        \A idx \in 0..MaxVecs :
            LET J == {j \in 1..Len(retr.results) : PassedIn(j, idx)}
            IN  J # {} => IsMaxOver(J, idx)

(* C14 amended: every position that, in at least one reformulation, passed *)
(* the threshold and had an entry in the chunk store is in the fused map   *)
(* exactly once, with the highest score of those reformulations and a      *)
(* query that produced it; no other position is in the map                 *)
C14_ResolvedPositionsFusedMax ==
    RetrReturned =>
        \A idx \in Positions :
            LET J == {j \in 1..Len(retr.results) :
                         PassedIn(j, idx) /\ idx \in retr.results[j].resolved}
            IN  IF J = {} THEN HitsOf(idx) = {} ELSE IsMaxOver(J, idx)

C14_Witness ==
    /\ RetrReturned
    /\ \E idx \in Positions, j1, j2 \in 1..Len(retr.results) :
          /\ PassedIn(j1, idx) /\ PassedIn(j2, idx)
          /\ idx \in retr.results[j1].resolved
          /\ ScoreIn(j1, idx) < ScoreIn(j2, idx)
          /\ HitsOf(idx) # {}

(* the returned list is made of distinct hits of the fused map, in         *)
(* non-increasing score order, and no hit left out scores higher than a    *)
(* returned one                                                            *)
TopOfFused ==
    LET res == retr.chunks
    IN  /\ \A i \in 1..Len(res) : \E h \in 1..Len(retr.all_hits) :
              retr.all_hits[h] = res[i]
        /\ \A i, j \in 1..Len(res) : i # j => res[i].index # res[j].index
        /\ \A i, j \in 1..Len(res) :
              i < j => res[i].similarity_score >= res[j].similarity_score
        /\ \A h \in 1..Len(retr.all_hits), i \in 1..Len(res) :
              (\A j \in 1..Len(res) : res[j].index # retr.all_hits[h].index)
                 => retr.all_hits[h].similarity_score <= res[i].similarity_score

MinOf(a, b) == IF a < b THEN a ELSE b

C16_StaticK ==
    (RetrReturned /\ ~retr.dynamic_k) =>
        /\ TopOfFused
        /\ Len(retr.chunks) = MinOf(retr.top_k, Len(retr.all_hits))

C16_Witness ==
    /\ RetrReturned /\ ~retr.dynamic_k
    /\ Len(retr.chunks) = retr.top_k
    /\ Len(retr.all_hits) > retr.top_k
    /\ \E h \in 1..Len(retr.all_hits) :
          retr.all_hits[h].similarity_score < retr.chunks[1].similarity_score
    /\ retr.all_hits[1].similarity_score < retr.chunks[1].similarity_score

(* C17: no returned hit has a similarity score below the threshold given   *)
(* to retrieve_data                                                        *)
C17_ThresholdFilters ==
    RetrReturned =>
        \A i \in 1..Len(retr.chunks) :
            \/ retr.threshold = <<>>
            \/ retr.chunks[i].similarity_score >= retr.threshold[1]

C17_Witness ==
    /\ RetrReturned
    /\ retr.threshold = <<90>>
    /\ retr.chunks # <<>>
    /\ \E j \in 1..Len(retr.results) :
          \E idx \in 0..MaxVecs :
             /\ idx \in retr.results[j].resolved
             /\ \E p \in 1..Len(retr.results[j].indices) :
                   retr.results[j].indices[p] = idx
             /\ ScoreIn(j, idx) < 90

(* C18: retrieve_data with an empty or whitespace-only query raises the    *)
(* input error at once, without a step of the reformulation provider, the  *)
(* embedding provider or a search, and changes no session state            *)
C18_BlankQueryRejected ==
    [][\A o \in 1..MaxObjs, q \in {"", " "}, k \in 1..MaxTopK, d \in BOOLEAN :
          RetrieveData(o, q, k, d, <<0>>) =>
             /\ retr'.pc = "done" /\ ~retr'.ok /\ retr'.error = "empty"
             /\ retr'.results = <<>>
             /\ UNCHANGED <<sessions, objs, vstores, cstores, legacy>>]_vars

C18_Witness ==
    /\ retr.pc = "done"
    /\ retr.error = "empty"
    /\ Len(vstores[objs[retr.sd].vector_store].vectors) > 0

(* C19: a retrieve_data call on a session whose index is empty, with a     *)
(* non-empty query and providers that answer, returns zero hits and does   *)
(* not raise                                                               *)
C19_EmptyIndexZeroHits ==
    [][(/\ retr.pc \in {"rewrite", "embed"}
        /\ Len(vstores[objs[retr.sd].vector_store].vectors) = 0
        /\ (\E qs \in RewriteLists : RetrRewrite(qs, TRUE)) \/ RetrEmbed(TRUE)
        /\ retr'.pc = "done")
          => (retr'.ok /\ retr'.chunks = <<>>)]_vars

(* C20: index_embedding with a vector of another dimension raises and      *)
(* leaves the index and its vectors_added count as they were; a successful *)
(* index_embedding adds exactly one vector; no step shrinks an index       *)
C20_IndexEmbeddingDimension ==
    [][/\ \A o \in 1..Len(objs), e \in EmbeddingInputs : IndexVector(o, e) =>
             LET before == vstores[objs[o].vector_store]
                 after  == vstores'[objs[o].vector_store]
             IN  IF Len(e) = embedding_dimension
                 THEN /\ ret'.val
                      /\ Len(after.vectors) = Len(before.vectors) + 1
                      /\ after.vectors_added = before.vectors_added + 1
                 ELSE /\ ~ret'.val
                      /\ after = before
       /\ \A o \in 1..Len(objs) : (\E t \in Texts : IndexEmbedding(o, t)) =>
             Len(vstores'[objs[o].vector_store].vectors)
               = Len(vstores[objs[o].vector_store].vectors) + 1
       /\ \A ref \in 1..Len(vstores) :
             Len(vstores'[ref].vectors) >= Len(vstores[ref].vectors)]_vars

C20_Witness ==
    /\ ret.op = "index_embedding"
    /\ ~ret.val
    /\ \E o \in 1..Len(objs) :
          /\ objs[o].session_id = ret.id
          /\ Len(vstores[objs[o].vector_store].vectors) > 0

(* C24: an iteration of the sweep that finds its selected id already       *)
(* removed leaves the registry as it is and goes on to the next id; every  *)
(* iteration adds to the count exactly the sessions it removed itself, and *)
(* the sweep returns that count after the last selected id                 *)
C24_SweepToleratesRacedDelete ==
    [][/\ SweepDelete =>
             /\ sweep'.pc = "loop"
             /\ sweep'.i = sweep.i + 1
             /\ sweep'.expired_sessions = sweep.expired_sessions
             /\ sweep'.cleaned_count - sweep.cleaned_count
                   = Cardinality(DOMAIN sessions) - Cardinality(DOMAIN sessions')
             /\ (sweep.expired_sessions[sweep.i] \notin DOMAIN sessions)
                   => sessions' = sessions
       /\ SweepReturn =>
             /\ sweep.i = Len(sweep.expired_sessions) + 1
             /\ ret'.op = "cleanup_expired_sessions"
             /\ ret'.val = sweep.cleaned_count]_vars

C24_Witness ==
    /\ sweep.pc = "loop"
    /\ Len(sweep.expired_sessions) = 2
    /\ sweep.i = 3
    /\ sweep.cleaned_count = 1
    /\ ret.op = "delete_session" /\ ret.val = TRUE
    /\ ret.id \in {sweep.expired_sessions[1], sweep.expired_sessions[2]}
    /\ Registered = {}

(* C27: list_sessions, get_session_info and get_total_stats leave the set  *)
(* of sessions and every session's last_access, created_at, index and      *)
(* chunk store as they were, so a session that was expired before the call *)
(* is expired after it                                                     *)
C27_ObservabilityReadOnly ==
    [][(ListSessions \/ GetTotalStats \/ \E id \in SessionIds : GetSessionInfo(id))
          => /\ sessions' = sessions
             /\ objs' = objs
             /\ vstores' = vstores
             /\ cstores' = cstores
             /\ \A k \in Registered :
                   is_expired(objs[sessions[k]], now, session_ttl_minutes)
                      => is_expired(objs'[sessions'[k]], now', session_ttl_minutes)]_vars

C27_Witness ==
    /\ ret.op = "get_session_info"
    /\ ret.id \in Registered
    /\ ret.val # <<>>
    /\ ret.val[1].is_expired
    /\ ret.val[1].chunks_indexed > 0
    /\ is_expired(objs[sessions[ret.id]], now, session_ttl_minutes)

(* C28: every step of a retrieve_data call, whether the call goes on to    *)
(* return or to raise, leaves every session's vector index (vectors and    *)
(* size), chunk_store and chunk_counter as they were                       *)
C28_RetrieveReadsOnly ==
    [][retr' # retr
          => /\ vstores' = vstores
             /\ cstores' = cstores
             /\ DOMAIN objs' = DOMAIN objs
             /\ \A o \in DOMAIN objs :
                   /\ objs'[o].chunk_counter = objs[o].chunk_counter
                   /\ objs'[o].vector_store = objs[o].vector_store
                   /\ objs'[o].chunk_store = objs[o].chunk_store]_vars

C28_Witness ==
    /\ retr.pc = "done" /\ retr.ok
    /\ retr.chunks # <<>>
    /\ retr.results # <<>>
    /\ vstores[objs[retr.sd].vector_store].vectors # <<>>
    /\ DOMAIN cstores[objs[retr.sd].chunk_store] # {}
    /\ objs[retr.sd].chunk_counter > 0

(* C26: a successful search round of retrieve_data never raises; a         *)
(* position it reports that has no entry in the session's chunk store, the *)
(* "no match" position -1 included, is in no fused hit and no returned     *)
(* hit, and every reported position that has an entry and passes the       *)
(* threshold is among the fused hits, of which the call returns some       *)
C26_UnresolvedSkipped ==
    [][RetrEmbed(TRUE) =>
         LET store == cstores[objs[retr.sd].chunk_store]
             last  == retr'.results[Len(retr'.results)]
         IN  /\ ~(retr'.pc = "done" /\ ~retr'.ok)
             /\ \A h \in 1..Len(retr'.all_hits) :
                   /\ retr'.all_hits[h].index # -1
                   /\ retr'.all_hits[h].index \in DOMAIN store
             /\ \A h \in 1..Len(retr'.chunks) :
                   /\ retr'.chunks[h].index # -1
                   /\ retr'.chunks[h].index \in DOMAIN store
             /\ \A p \in 1..Len(last.indices) :
                   (/\ last.indices[p] \in DOMAIN store
                    /\ ~BelowThreshold(last.scores[p], retr.threshold))
                      => HitAt(retr'.all_hits, last.indices[p]) # 0
             /\ (retr'.pc = "done" /\ retr'.all_hits # <<>>)
                   => retr'.chunks # <<>>]_vars

C26_Witness ==
    /\ retr.pc = "done" /\ retr.ok
    /\ retr.threshold = <<>>
    /\ retr.chunks # <<>>
    /\ \E j \in 1..Len(retr.results) :
          /\ \E p \in 1..Len(retr.results[j].indices) :
                retr.results[j].indices[p] = -1
          /\ \E p \in 1..Len(retr.results[j].indices) :
                /\ retr.results[j].indices[p] >= 0
                /\ retr.results[j].indices[p] \notin retr.results[j].resolved
          /\ \E p \in 1..Len(retr.results[j].indices) :
                retr.results[j].indices[p] \in retr.results[j].resolved

(* the positions and scores of a hit list, in its order *)
PositionsAndScores(chunks) ==
    [i \in 1..Len(chunks) |-> <<chunks[i].index, chunks[i].similarity_score>>]

QueryOrders(n) ==
    {f \in [1..n -> 1..n] : \A i, j \in 1..n : i # j => f[i] # f[j]}

(* C25: the hit list retrieve_data returns (positions, scores and order)   *)
(* is the one it returns for every permutation of the reformulated         *)
(* queries, equal fused scores included                                    *)
C25_FusionOrderIndependent ==
    [][(RetrEmbed(TRUE) /\ retr'.pc = "done" /\ retr'.ok) =>
         \A f \in QueryOrders(Len(retr.queries)) :
            PositionsAndScores(retr'.chunks) =
               PositionsAndScores(
                  retrieved_chunks(vstores[objs[retr.sd].vector_store],
                                   cstores[objs[retr.sd].chunk_store],
                                   retr.query,
                                   [i \in 1..Len(retr.queries) |-> retr.queries[f[i]]],
                                   retr.top_k, retr.dynamic_k, retr.threshold))]_vars

(* the calls of the chunker and of the post-pass that have returned *)
ChunkerDone == chunker.pc = "done"

(* the words of the paragraphs of chunk from position a to position b *)
WordsIn(chunk, a, b) == WordCount(chunker.paragraphs, SubSeq(chunk, a, b))

(* C23: every chunk the orphan-merge post-pass returns has at least        *)
(* min_words = 5 words, for every input chunk list                         *)
C23_NoShortChunkReturned ==
    ChunkerDone =>
        \A k \in 1..Len(chunker.merged) :
            WordCount(chunker.paragraphs, chunker.merged[k]) >= ORPHAN_MIN_WORDS

(* C23, amended: every chunk the post-pass returns has at least min_words  *)
(* words, unless all input chunks together have fewer than min_words       *)
(* words: then it returns one chunk that holds all of them                 *)
C23_NoShortChunkUnlessAllShort ==
    ChunkerDone =>
        LET all == [i \in 1..Len(chunker.paragraphs) |-> i]
        IN  IF chunker.paragraphs # <<>>
               /\ WordCount(chunker.paragraphs, all) < ORPHAN_MIN_WORDS
            THEN chunker.merged = <<all>>
            ELSE \A k \in 1..Len(chunker.merged) :
                    WordCount(chunker.paragraphs, chunker.merged[k])
                       >= ORPHAN_MIN_WORDS

C23_Witness ==
    /\ ChunkerDone
    /\ Len(chunker.chunks) = 3
    /\ WordCount(chunker.paragraphs, chunker.chunks[1]) < ORPHAN_MIN_WORDS
    /\ WordCount(chunker.paragraphs, chunker.chunks[2]) >= ORPHAN_MIN_WORDS
    /\ WordCount(chunker.paragraphs, chunker.chunks[3]) < ORPHAN_MIN_WORDS
    /\ chunker.merged = <<chunker.chunks[1] \o chunker.chunks[2] \o chunker.chunks[3]>>

(* paragraph p of the chunk is flagged is_heading *)
HeadingAt(chunk, p) == chunker.paragraphs[chunk[p]].is_heading

(* the chunk list holds a paragraph behind the first one of its chunk that *)
(* is a heading                                                            *)
HeadingInside(chunks) ==
    \E k \in 1..Len(chunks) : \E p \in 2..Len(chunks[k]) : HeadingAt(chunks[k], p)

(* C22: in the final output of the semantic chunker every paragraph        *)
(* flagged is_heading is the first paragraph of its chunk                  *)
C22_HeadingFirstInOutput ==
    ChunkerDone => ~HeadingInside(chunker.merged)

(* C22, amended: in the chunk list the chunker hands to the orphan-merge   *)
(* post-pass every heading is the first paragraph of its chunk, also when  *)
(* the buffer before it is under the maximum length; in the final output a *)
(* heading is the first paragraph of its chunk unless the post-pass joined *)
(* chunks there: the paragraphs before it in the chunk, or the heading     *)
(* with the paragraphs after it, have fewer than min_words words           *)
C22_HeadingFirstUnlessOrphanMerged ==
    ChunkerDone =>
        /\ ~HeadingInside(chunker.chunks)
        /\ \A k \in 1..Len(chunker.merged) :
              \A p \in 2..Len(chunker.merged[k]) :
                 HeadingAt(chunker.merged[k], p) =>
                    \/ WordsIn(chunker.merged[k], 1, p - 1) < ORPHAN_MIN_WORDS
                    \/ WordsIn(chunker.merged[k], p, Len(chunker.merged[k]))
                          < ORPHAN_MIN_WORDS

C22_Witness ==
    /\ ChunkerDone /\ chunker.similarities # <<>>
    /\ split_points(chunker.similarities) = {}
    /\ Len(chunker.merged) = 2
    /\ HeadingAt(chunker.merged[2], 1)
    /\ ~HeadingAt(chunker.merged[1], 1)
    /\ SumSeq([j \in 1..Len(chunker.paragraphs) |-> chunker.paragraphs[j].len])
          <= chunk_size

(* the worker tasks that are neither done nor cancelled *)
RunningTasks == {t \in 1..Len(worker.tasks) : Running(worker.tasks[t])}

(* C29: at most one cleanup worker task is running at any time; a call of  *)
(* start_cleanup_worker_sync while the task exists and is not done creates *)
(* no task                                                                 *)
C29_AtMostOneWorker ==
    /\ Cardinality(RunningTasks) <= 1
    /\ RunningTasks \subseteq {worker.cleanup_task}
    /\ (ret.op = "start_cleanup_worker_sync" /\ ~ret.val) => worker.tasks # <<>>

C29_Witness ==
    /\ Len(worker.tasks) = 2
    /\ worker.tasks[1].pc = "cancelled"
    /\ worker.tasks[2].pc = "waiting"
    /\ ret.op = "start_cleanup_worker_sync" /\ ~ret.val

(* C30: once stop_cleanup_worker has set the shutdown signal, no sweep of  *)
(* the worker starts until the worker is started again, and a worker task  *)
(* that begins to run while the signal is set leaves it set                *)
C30_SignalNotLost ==
    [][/\ (\E t \in 1..MaxTasks : WorkerTimeout(t)) => ~worker.signalled
       /\ (\E t \in 1..MaxTasks : WorkerBegin(t))
             => (worker.shutdown_event => worker'.shutdown_event)]_vars

(* C21: stop_cleanup_worker always returns, and when it has returned the   *)
(* worker task is done or cancelled and starts no sweep                    *)
C21_StopEndsWorker ==
    /\ worker.stopped # "raised"
    /\ (worker.stopped = "returned" /\ worker.signalled)
          => \A t \in 1..Len(worker.tasks) : ~Running(worker.tasks[t])

====
